---- MODULE Spec2Model ----
(***************************************************************************)
(* S/MIME signature verification of RocketSMIMEBrowserExtension.           *)
(*                                                                         *)
(* src/src/modules/smimeVerificationService.js holds two definitions of    *)
(* class SmimeVerificationService: lines 10-205 (with certificate expiry   *)
(* check and fetchSignerEmail) and lines 233-437 (with OCSP request        *)
(* construction, no expiry check).  The variable impl says which of the    *)
(* two definitions serves the call.                                        *)
(*                                                                         *)
(* The MIME parser, asn1js and pkijs are libraries: what they return       *)
(* (the parsed node tree, the decoded CMS structure, the outcome of        *)
(* SignedData.verify) and the wall clock are inputs, drawn from small sets *)
(* at the step where the code first reads them.                            *)
(*                                                                         *)
(* Spec is one call of verifyMessageSignature.  ServiceSpec is two calls   *)
(* in flight on one service instance (FairServiceSpec adds the fairness of *)
(* the event loop).  MarkingSpec is one call of MarkingService.markResult  *)
(* (src/unnamed/part_000).                                                 *)
(***************************************************************************)
EXTENDS Integers, Sequences, FiniteSets, TLC

VARIABLES
  impl,          \* 1: class at lines 10-205, 2: class at lines 233-437
  mailId,        \* argument mailId
  msg,           \* parser.node and parser.getNode("2") after parser.end()
  sig,           \* what fromBER / ContentInfo / SignedData make of signatureNode.content
  now,           \* the wall clock at the call (new Date() of isAnyCertificateExpired)
  from,          \* parser.node.headers.from[0].value[0].address
  verifyOutcome, \* how the promise of cmsSignedSimpl.verify(...) settled
  pc,            \* position of the call
  promise,       \* state of the promise verifyMessageSignature returned
  result,        \* the result object
  resolveCalls,  \* number of calls of resolve(result)
  stages,        \* the stages executed, in order
  signerEmail,   \* local signerEmail, captured by the callbacks
  ocspReqBuffer, \* this.ocspReqBuffer of the service (second definition)
  service,       \* one service instance serving several calls: its definition and fields
  calls,         \* the calls made on that instance, each with its own locals
  location,      \* window.location.href
  iconFound,     \* the document holds an element of class smime-mark-<mailId>
  markArg,       \* argument result of MarkingService.markResult
  markPc,        \* position of the call of markResult
  markCalls,     \* the calls of markForInbox and markForGmail, in order
  inserted       \* the elements inserted into the page, in order

(* one call of verifyMessageSignature *)
callVars == <<impl, mailId, msg, sig, now, from, verifyOutcome, pc, promise,
              result, resolveCalls, stages, signerEmail, ocspReqBuffer>>

(* several calls on one service instance *)
serviceVars == <<service, calls>>

(* MarkingService *)
markingVars == <<location, iconFound, markArg, markPc, markCalls, inserted>>

vars == <<callVars, serviceVars, markingVars>>

-----------------------------------------------------------------------------
(* JavaScript values that are not strings of the domain *)
Undefined == "undefined"
Null == "null"

-----------------------------------------------------------------------------
(* Bounds of the model *)
MaxChildNodes == 2
MaxCerts == 2

-----------------------------------------------------------------------------
(* constants.js *)
signatureNodeContentTypeValues ==
  <<"application/x-pkcs7-signature", "application/pkcs7-signature">>

rootNodeContentTypeValue == "multipart/signed"

rootNodeContentTypeProtocol == "application/pkcs7-signature"

rootNodeContentTypeMessageIntegrityCheckAlgorithms ==
  <<"md5", "sha-1", "sha-224", "sha-256", "sha-384", "sha-512", "unknown">>

VERIFICATION_OK == "VERIFICATION_OK"

CANNOT_VERIFY == "CANNOT_VERIFY"

FRAUD_WARNING == "FRAUD_WARNING"

(* smimeSpecificationConstants.certificateTypeForSignerEmail and            *)
(* .expirationDateMarginHours are imported by the service from a file that  *)
(* is not part of src/: the OID of the emailAddress attribute and "a small  *)
(* number of hours".                                                        *)
certificateTypeForSignerEmail == "1.2.840.113549.1.9.1"

expirationDateMarginHours == 1

commonNameType == "2.5.4.3"

(* getResultPrototype() of ./resultPrototype (not part of src/): the        *)
(* default, neutral values of a result.                                     *)
getResultPrototype ==
  [mailId |-> "", success |-> FALSE, code |-> "", message |-> "", signer |-> ""]

-----------------------------------------------------------------------------
(* Inputs *)
MailIds == {"m1", "m2"}

RootContentTypeValues == {"multipart/signed", "multipart/sign", "text/plain", ""}

ProtocolValues == {"application/pkcs7-signature", "application/x-pkcs7-signature", Undefined}

MicalgValues == {"sha-256", "SHA-256", Undefined}

SignatureContentTypeValues ==
  {"application/x-pkcs7-signature", "application/pkcs7-signature", "text/plain"}

(* rootNode.contentType: absent, or a value with params absent or present *)
RootContentTypes ==
  {[present |-> FALSE, value |-> Undefined, hasParams |-> FALSE,
    protocol |-> Undefined, micalg |-> Undefined]}
  \cup {[present |-> TRUE, value |-> v, hasParams |-> FALSE,
         protocol |-> Undefined, micalg |-> Undefined] : v \in RootContentTypeValues}
  \cup [present : {TRUE}, value : RootContentTypeValues, hasParams : {TRUE},
        protocol : ProtocolValues, micalg : MicalgValues]

(* rootNode._childNodes (falsy, or an array of n child nodes) and the       *)
(* content type of child node 2 when there is one                           *)
ChildNodes ==
  {[truthy |-> FALSE, count |-> 0, signatureContentType |-> Undefined]}
  \cup {[truthy |-> TRUE, count |-> n, signatureContentType |-> Undefined] : n \in 0..1}
  \cup [truthy : {TRUE}, count : 2..MaxChildNodes,
        signatureContentType : SignatureContentTypeValues]

(* the parser gives a node child nodes only when its content type is a     *)
(* multipart/... type with parameters (the boundary)                       *)
isMultipart(contentType) ==
  /\ contentType.present
  /\ contentType.hasParams
  /\ Len(contentType.value) >= 10
  /\ SubSeq(contentType.value, 1, 10) = "multipart/"

Messages ==
  {m \in [contentType : RootContentTypes, childNodes : ChildNodes] :
     m.childNodes.truthy => isMultipart(m.contentType)}

Addresses == {"alice@x.org", "Alice@x.org", "mallory@evil.org"}

FromHeaders == Addresses \cup {Undefined}

Email(a) == [type |-> certificateTypeForSignerEmail, value |-> a]

CommonName(n) == [type |-> commonNameType, value |-> n]

Subjects ==
  { <<>>,
    <<Email("alice@x.org")>>,
    <<Email("Alice@x.org")>>,
    <<Email("mallory@evil.org")>>,
    <<CommonName("Alice"), Email("alice@x.org")>> }

(* milliseconds since the epoch *)
Validities ==
  { [notBefore |-> 10000000, notAfter |-> 20000000],
    [notBefore |-> 10000000, notAfter |-> 30000000] }

Certificates ==
  { [subject |-> s, notBefore |-> v.notBefore, notAfter |-> v.notAfter] :
      s \in Subjects, v \in Validities }

CertificateSeqs == UNION { [1..n -> Certificates] : n \in 0..MaxCerts }

marginMilliseconds == expirationDateMarginHours * 60 * 60 * 1000

Nows ==
  { 10000000 - marginMilliseconds - 1, 10000000 - marginMilliseconds,
    20000000 + marginMilliseconds, 20000000 + marginMilliseconds + 1,
    30000000 + marginMilliseconds + 1 }

NoTime == 0 - 1

NotDecoded ==
  [read |-> FALSE, berOffset |-> -1, contentInfoOk |-> FALSE, signedDataOk |-> FALSE,
   hasCertificates |-> FALSE, certificates |-> <<>>, issuerAttrs |-> 0]

(* What the libraries make of the signature part.  issuerAttrs is the number *)
(* of attributes of certificates[0].issuer, which only the second definition *)
(* reads.                                                                     *)
SignatureBlobs(i) ==
  {[NotDecoded EXCEPT !.read = TRUE],
   [NotDecoded EXCEPT !.read = TRUE, !.berOffset = 64],
   [NotDecoded EXCEPT !.read = TRUE, !.berOffset = 64, !.contentInfoOk = TRUE],
   [NotDecoded EXCEPT !.read = TRUE, !.berOffset = 64, !.contentInfoOk = TRUE,
                      !.signedDataOk = TRUE]}
  \cup
  {[read |-> TRUE, berOffset |-> 64, contentInfoOk |-> TRUE, signedDataOk |-> TRUE,
    hasCertificates |-> TRUE, certificates |-> cs, issuerAttrs |-> n] :
      cs \in CertificateSeqs, n \in IF i = 1 THEN {4} ELSE {3, 4}}

FulfilValues == {"true", "false", Undefined, Null}

VerifyOutcomes ==
  [kind : {"fulfilled"}, value : FulfilValues] \cup {[kind |-> "rejected", value |-> Undefined]}

NotSettled == [kind |-> "pending", value |-> Undefined]

-----------------------------------------------------------------------------
(* String.prototype.indexOf and Array.prototype.indexOf *)
StringIndexOf(s, x) ==
  LET hits == {i \in 0..(Len(s) - Len(x)) : SubSeq(s, i + 1, i + Len(x)) = x}
  IN IF hits = {} THEN -1 ELSE CHOOSE i \in hits : \A j \in hits : i <= j

ArrayIndexOf(arr, x) ==
  LET hits == {i \in 0..(Len(arr) - 1) : arr[i + 1] = x}
  IN IF hits = {} THEN -1 ELSE CHOOSE i \in hits : \A j \in hits : i <= j

(* parser.getNode("2") *)
getNode(m, n) ==
  IF m.childNodes.count >= n
  THEN [present |-> TRUE, contentTypeValue |-> m.childNodes.signatureContentType]
  ELSE [present |-> FALSE, contentTypeValue |-> Undefined]

isRootNodeContentTypeValueCorrect(rootNode) ==
  StringIndexOf(rootNodeContentTypeValue, rootNode.contentType.value) # -1

isRootNodeContentTypeProtocolCorrect(rootNode) ==
  rootNode.contentType.protocol = rootNodeContentTypeProtocol

isRootNodeContentTypeMicalgCorrect(rootNode) ==
  ArrayIndexOf(rootNodeContentTypeMessageIntegrityCheckAlgorithms,
               rootNode.contentType.micalg) # -1

isSignatureNodeContentTypeValueCorrect(signatureNode) ==
  ArrayIndexOf(signatureNodeContentTypeValues, signatureNode.contentTypeValue) # -1

(* the truthiness of the && chain *)
isValidSmimeEmail(rootNode, signatureNode) ==
  /\ rootNode.contentType.present
  /\ rootNode.contentType.hasParams
  /\ rootNode.childNodes.truthy
  /\ signatureNode.present
  /\ isRootNodeContentTypeValueCorrect(rootNode)
  /\ isRootNodeContentTypeProtocolCorrect(rootNode)
  /\ isRootNodeContentTypeMicalgCorrect(rootNode)
  /\ isSignatureNodeContentTypeValueCorrect(signatureNode)

-----------------------------------------------------------------------------
(* Functions that throw return [threw, value] *)
Threw == [threw |-> TRUE, value |-> Undefined]

Returned(v) == [threw |-> FALSE, value |-> v]

(* asn1js.fromBER; throws when asn1.offset === -1 *)
getAsn1TypeFromBuffer(signatureBuffer) ==
  IF signatureBuffer.berOffset = -1 THEN Threw ELSE Returned(signatureBuffer)

(* new ContentInfo({schema}) and new SignedData({schema}) throw on a schema *)
(* that does not match                                                      *)
getSignedDataFromAsn1(asn1) ==
  IF asn1.contentInfoOk /\ asn1.signedDataOk THEN Returned(asn1) ELSE Threw

(* the value of the last email attribute of subject, or acc when none *)
RECURSIVE lastEmailOfSubject(_, _, _)
lastEmailOfSubject(typesAndValues, subjectKey, acc) ==
  IF subjectKey > Len(typesAndValues) THEN acc
  ELSE lastEmailOfSubject(typesAndValues, subjectKey + 1,
         IF typesAndValues[subjectKey].type = certificateTypeForSignerEmail
         THEN typesAndValues[subjectKey].value ELSE acc)

RECURSIVE lastEmailOfCertificates(_, _, _)
lastEmailOfCertificates(certificates, certKey, acc) ==
  IF certKey > Len(certificates) THEN acc
  ELSE lastEmailOfCertificates(certificates, certKey + 1,
         lastEmailOfSubject(certificates[certKey].subject, 1, acc))

(* first definition: every certificate and every subject attribute is      *)
(* visited, each email attribute overwrites signerEmail; Object.keys of an *)
(* absent certificates field throws                                        *)
fetchSignerEmail(signedData) ==
  IF ~signedData.hasCertificates THEN Threw
  ELSE Returned(lastEmailOfCertificates(signedData.certificates, 1, Null))

(* second definition, line 324:                                            *)
(* cmsSignedSimpl.certificates[0].subject.typesAndValues[0].value...value  *)
firstAttributeOfFirstCertificate(signedData) ==
  IF \/ ~signedData.hasCertificates
     \/ Len(signedData.certificates) = 0
     \/ Len(signedData.certificates[1].subject) = 0
  THEN Threw
  ELSE Returned(signedData.certificates[1].subject[1].value)

(* second definition, lines 278-321: the OCSP request is built from        *)
(* certificates[0] (tbs, issuer.typesAndValues[3], serialNumber); a missing *)
(* certificate or a fourth issuer attribute that is missing throws          *)
buildOcspRequest(signedData, id) ==
  IF \/ ~signedData.hasCertificates
     \/ Len(signedData.certificates) = 0
     \/ signedData.issuerAttrs < 4
  THEN Threw
  ELSE Returned(id)

(* the comparisons with the bounds of the window not strict *)
isAnyCertificateExpiredNonStrict(signedData, t) ==
  \E k \in 1..Len(signedData.certificates) :
    LET certificate == signedData.certificates[k]
        startDateWithMargin == certificate.notBefore - marginMilliseconds
        endDateWithMargin == certificate.notAfter + marginMilliseconds
    IN \/ t <= startDateWithMargin
       \/ t >= endDateWithMargin

(* lines 130-149 *)
isAnyCertificateExpired(signedData, t) ==
  \E k \in 1..Len(signedData.certificates) :
    LET certificate == signedData.certificates[k]
        startDateWithMargin == certificate.notBefore - marginMilliseconds
        endDateWithMargin == certificate.notAfter + marginMilliseconds
    IN \/ t < startDateWithMargin
       \/ t > endDateWithMargin

(* typeof verificationResult === "undefined" in place of !== *)
isVerificationFailedInverted(verificationResult) ==
  IF verificationResult = Undefined
  THEN (IF verificationResult = "false" THEN TRUE ELSE FALSE)
  ELSE FALSE

isVerificationFailed(verificationResult) ==
  IF verificationResult # Undefined
  THEN (IF verificationResult = "false" THEN TRUE ELSE FALSE)
  ELSE FALSE

(* parser.node.headers.from[0].value[0]; throws when there is no From header *)
isFromAddressCorrect(fromAddress, signer) ==
  IF fromAddress = Undefined THEN Threw ELSE Returned(fromAddress = signer)

-----------------------------------------------------------------------------
(* the three assignments of a terminal branch *)
Verdict(r, success, code, message) ==
  [r EXCEPT !.success = success, !.code = code, !.message = message]

(* lines 33-35 *)
notSignedVerdict(r) ==
  Verdict(r, FALSE, CANNOT_VERIFY, "Message is not digitally signed.")

(* the catch block classifying the decode failure as inconclusive *)
invalidSignatureVerdictInconclusive(r) ==
  Verdict(r, FALSE, CANNOT_VERIFY, "Fraud warning: Invalid digital signature.")

(* lines 53-55 *)
invalidSignatureVerdict(r) ==
  Verdict(r, FALSE, FRAUD_WARNING, "Fraud warning: Invalid digital signature.")

(* lines 63-65 *)
expiredVerdict(r) ==
  Verdict(r, FALSE, FRAUD_WARNING,
          "The signature's certificate has expired. Be wary of message content.")

(* the failed-verification branch with the success flag of the last branch *)
failedVerificationVerdictSuccess(r) ==
  Verdict(r, TRUE, FRAUD_WARNING,
          "Fraud warning: Message failed verification with signature.")

(* lines 78-80 *)
failedVerificationVerdict(r) ==
  Verdict(r, FALSE, FRAUD_WARNING,
          "Fraud warning: Message failed verification with signature.")

(* lines 85-87 *)
fromMismatchVerdict(r) ==
  Verdict(r, FALSE, FRAUD_WARNING,
          "Fraud warning: The \"From\" email address does not match the signature's email address.")

(* lines 91-93 *)
okVerdict(r) ==
  Verdict(r, TRUE, VERIFICATION_OK,
          "Message includes a valid digital signature for the sender.")

(* lines 98-100 *)
unknownErrorVerdict(r) ==
  Verdict(r, FALSE, CANNOT_VERIFY, "Message cannot be verified: Unknown error.")

(* no service instance with several calls, no call of markResult *)
ServiceIdle ==
  /\ service = [impl |-> 0, ocspReqBuffer |-> "empty", writers |-> {}]
  /\ calls = <<>>

MarkingIdle ==
  /\ location = ""
  /\ iconFound = FALSE
  /\ markArg = getResultPrototype
  /\ markPc = "none"
  /\ markCalls = <<>>
  /\ inserted = <<>>

Init ==
  /\ ServiceIdle
  /\ MarkingIdle
  /\ impl \in {1, 2}
  /\ mailId \in MailIds
  /\ msg \in Messages
  /\ sig = NotDecoded
  /\ now = NoTime
  /\ from = Undefined
  /\ verifyOutcome = NotSettled
  /\ pc = "start"
  /\ promise = "pending"
  /\ result = getResultPrototype
  /\ resolveCalls = 0
  /\ stages = <<>>
  /\ signerEmail = ""
  /\ ocspReqBuffer = "empty"

(* resolve(result) without the return: the executor goes on to the       *)
(* verification                                                           *)
ResolveInExecutorWithoutReturn(r, ran) ==
  /\ result' = r
  /\ promise' = "resolved"
  /\ resolveCalls' = resolveCalls + 1
  /\ stages' = ran
  /\ pc' = "awaitVerify"

(* return resolve(result) on a terminal branch of the executor *)
ResolveInExecutor(r, ran) ==
  /\ result' = r
  /\ promise' = "resolved"
  /\ resolveCalls' = resolveCalls + 1
  /\ stages' = ran
  /\ pc' = "done"

(* cmsSignedSimpl.verify(...) is called and the executor returns *)
StartVerify(r, ran) ==
  /\ result' = r
  /\ promise' = "pending"
  /\ resolveCalls' = resolveCalls
  /\ stages' = ran
  /\ pc' = "awaitVerify"

(* The executor of the first definition (lines 20-73): envelope check,     *)
(* decode, expiry check, start of the verification.                        *)
verifyMessageSignature ==
  /\ pc = "start"
  /\ impl = 1
  /\ LET r == [getResultPrototype EXCEPT !.mailId = mailId]
         signatureNode == getNode(msg, 2)
     IN IF ~isValidSmimeEmail(msg, signatureNode)
        THEN /\ ResolveInExecutor(notSignedVerdict(r), <<"envelope">>)
             /\ UNCHANGED <<sig, now, signerEmail>>
        ELSE \E signatureBuffer \in SignatureBlobs(1) :
          LET asn1 == getAsn1TypeFromBuffer(signatureBuffer)
              cmsSignedSimpl == IF asn1.threw THEN Threw
                                ELSE getSignedDataFromAsn1(asn1.value)
              fetched == IF cmsSignedSimpl.threw THEN Threw
                         ELSE fetchSignerEmail(cmsSignedSimpl.value)
          IN /\ sig' = signatureBuffer
             /\ IF fetched.threw
                THEN /\ ResolveInExecutor(invalidSignatureVerdict(r),
                                       <<"envelope", "decode">>)
                     /\ UNCHANGED <<now, signerEmail>>
                ELSE \E t \in Nows :
                  /\ now' = t
                  /\ signerEmail' = fetched.value
                  /\ IF isAnyCertificateExpired(cmsSignedSimpl.value, t)
                     THEN ResolveInExecutor(expiredVerdict(r),
                                            <<"envelope", "decode", "expiry">>)
                     ELSE StartVerify(r, <<"envelope", "decode", "expiry", "verify">>)
  /\ UNCHANGED <<impl, mailId, msg, from, verifyOutcome, ocspReqBuffer>>
  /\ UNCHANGED <<serviceVars, markingVars>>

(* The executor of the second definition (lines 247-338): envelope check,  *)
(* decode with construction of the OCSP request, start of the verification *)
(* (there is no expiry check).                                             *)
verifyMessageSignatureOcsp ==
  /\ pc = "start"
  /\ impl = 2
  /\ LET r == [getResultPrototype EXCEPT !.mailId = mailId]
         signatureNode == getNode(msg, 2)
     IN IF ~isValidSmimeEmail(msg, signatureNode)
        THEN /\ ResolveInExecutor(notSignedVerdict(r), <<"envelope">>)
             /\ UNCHANGED <<sig, now, signerEmail, ocspReqBuffer>>
        ELSE \E signatureBuffer \in SignatureBlobs(2) :
          LET asn1 == getAsn1TypeFromBuffer(signatureBuffer)
              cmsSignedSimpl == IF asn1.threw THEN Threw
                                ELSE getSignedDataFromAsn1(asn1.value)
              ocsp == IF cmsSignedSimpl.threw THEN Threw
                      ELSE buildOcspRequest(cmsSignedSimpl.value, mailId)
              fetched == IF ocsp.threw THEN Threw
                         ELSE firstAttributeOfFirstCertificate(cmsSignedSimpl.value)
          IN /\ sig' = signatureBuffer
             /\ ocspReqBuffer' = IF ocsp.threw THEN ocspReqBuffer ELSE ocsp.value
             /\ IF fetched.threw
                THEN /\ ResolveInExecutor(invalidSignatureVerdict(r),
                                       <<"envelope", "decode">>)
                     /\ UNCHANGED <<now, signerEmail>>
                ELSE \E t \in Nows :
                  /\ now' = t
                  /\ signerEmail' = fetched.value
                  /\ StartVerify(r, <<"envelope", "decode", "verify">>)
  /\ UNCHANGED <<impl, mailId, msg, from, verifyOutcome>>
  /\ UNCHANGED <<serviceVars, markingVars>>

(* The promise returned by cmsSignedSimpl.verify settles (pkijs) *)
VerifySettles(outcome) ==
  /\ pc = "awaitVerify"
  /\ verifyOutcome' = outcome
  /\ pc' = IF outcome.kind = "fulfilled" THEN "thenQueued" ELSE "catchQueued"
  /\ UNCHANGED <<impl, mailId, msg, sig, now, from, promise, result,
                 resolveCalls, stages, signerEmail, ocspReqBuffer>>
  /\ UNCHANGED <<serviceVars, markingVars>>

(* lines 73-96: the callback of catch is chained on the promise of then, so *)
(* an exception thrown inside the callback of then reaches it too.  With the *)
(* error callback given as second argument of then, it would not.            *)
afterThrowInThenSecondArgument == "done"

afterThrowInThen == "catchQueued"

(* The callback given to then (lines 74-95, the same text at 339-360).  An *)
(* exception thrown by isFromAddressCorrect rejects the promise of then,   *)
(* and the callback given to catch runs next.                              *)
onVerified ==
  /\ pc = "thenQueued"
  /\ LET r == [result EXCEPT !.signer = signerEmail]
     IN IF isVerificationFailed(verifyOutcome.value)
        THEN /\ result' = failedVerificationVerdict(r)
             /\ promise' = "resolved"
             /\ resolveCalls' = resolveCalls + 1
             /\ pc' = "done"
             /\ UNCHANGED <<from, stages>>
        ELSE \E fromAddress \in FromHeaders :
          LET correct == isFromAddressCorrect(fromAddress, signerEmail)
          IN /\ from' = fromAddress
             /\ stages' = Append(stages, "identity")
             /\ IF correct.threw
                THEN /\ result' = r
                     /\ pc' = afterThrowInThen
                     /\ UNCHANGED <<promise, resolveCalls>>
                ELSE /\ result' =
                          IF ~correct.value THEN fromMismatchVerdict(r)
                          ELSE okVerdict(r)
                     /\ promise' = "resolved"
                     /\ resolveCalls' = resolveCalls + 1
                     /\ pc' = "done"
  /\ UNCHANGED <<impl, mailId, msg, sig, now, verifyOutcome, signerEmail, ocspReqBuffer>>
  /\ UNCHANGED <<serviceVars, markingVars>>

(* The callback given to catch (lines 97-102, the same text at 362-368) *)
onVerifyError ==
  /\ pc = "catchQueued"
  /\ result' = unknownErrorVerdict(result)
  /\ promise' = "resolved"
  /\ resolveCalls' = resolveCalls + 1
  /\ pc' = "done"
  /\ UNCHANGED <<impl, mailId, msg, sig, now, from, verifyOutcome, stages,
                 signerEmail, ocspReqBuffer>>
  /\ UNCHANGED <<serviceVars, markingVars>>

Next ==
  \/ verifyMessageSignature
  \/ verifyMessageSignatureOcsp
  \/ \E outcome \in VerifyOutcomes : VerifySettles(outcome)
  \/ onVerified
  \/ onVerifyError

Spec == Init /\ [][Next]_vars

TypeOK ==
  /\ pc \in {"start", "awaitVerify", "thenQueued", "catchQueued", "done"}
  /\ promise \in {"pending", "resolved", "rejected"}
  /\ resolveCalls \in 0..1

-----------------------------------------------------------------------------
(* Several calls of verifyMessageSignature on one service instance.  The   *)
(* executor of a call runs to its end without interruption (JavaScript is  *)
(* single threaded); the executors and callbacks of different calls         *)
(* interleave in any order.  What the libraries make of the raw bytes of a  *)
(* message is fixed with the message; the clock is read by the call.        *)
CallIds == {1, 2}

SignedEnvelope ==
  [contentType |-> [present |-> TRUE, value |-> "multipart/signed", hasParams |-> TRUE,
                    protocol |-> "application/pkcs7-signature", micalg |-> "sha-256"],
   childNodes |-> [truthy |-> TRUE, count |-> 2,
                   signatureContentType |-> "application/pkcs7-signature"]]

UnsignedEnvelope ==
  [contentType |-> [present |-> TRUE, value |-> "text/plain", hasParams |-> FALSE,
                    protocol |-> Undefined, micalg |-> Undefined],
   childNodes |-> [truthy |-> FALSE, count |-> 0, signatureContentType |-> Undefined]]

AliceCertificate ==
  [subject |-> <<Email("alice@x.org")>>, notBefore |-> 10000000, notAfter |-> 20000000]

GarbageBlob == [NotDecoded EXCEPT !.read = TRUE]

DecodedBlob(issuerAttrs) ==
  [read |-> TRUE, berOffset |-> 64, contentInfoOk |-> TRUE, signedDataOk |-> TRUE,
   hasCertificates |-> TRUE, certificates |-> <<AliceCertificate>>,
   issuerAttrs |-> issuerAttrs]

ServiceVerifyOutcomes ==
  { [kind |-> "fulfilled", value |-> "true"],
    [kind |-> "fulfilled", value |-> "false"],
    [kind |-> "rejected", value |-> Undefined] }

(* rawMessage: the node tree, the decoded signature part, the From address *)
(* and the outcome of the verification that its bytes determine            *)
RawMessages ==
  { [msg |-> UnsignedEnvelope, sig |-> NotDecoded, from |-> "alice@x.org",
     verify |-> NotSettled],
    [msg |-> SignedEnvelope, sig |-> GarbageBlob, from |-> "alice@x.org",
     verify |-> NotSettled] }
  \cup [msg : {SignedEnvelope}, sig : {DecodedBlob(3), DecodedBlob(4)},
        from : {"alice@x.org", "mallory@evil.org", Undefined},
        verify : ServiceVerifyOutcomes]

(* the last instant of the window of AliceCertificate and the first after it *)
ServiceNows ==
  { AliceCertificate.notAfter + marginMilliseconds,
    AliceCertificate.notAfter + marginMilliseconds + 1 }

(* the OCSP request of a call (each carries its own nonce) *)
OcspRequestOf(k) == IF k = 1 THEN "ocsp-request-1" ELSE "ocsp-request-2"

NewCall(id, raw) ==
  [mailId |-> id, raw |-> raw, now |-> NoTime, verifyOutcome |-> NotSettled,
   pc |-> "start", promise |-> "pending", result |-> getResultPrototype,
   resolveCalls |-> 0, stages |-> <<>>, signerEmail |-> ""]

ServiceInit ==
  /\ impl = 1
  /\ mailId = "m1"
  /\ msg = UnsignedEnvelope
  /\ sig = NotDecoded
  /\ now = NoTime
  /\ from = Undefined
  /\ verifyOutcome = NotSettled
  /\ pc = "none"
  /\ promise = "pending"
  /\ result = getResultPrototype
  /\ resolveCalls = 0
  /\ stages = <<>>
  /\ signerEmail = ""
  /\ ocspReqBuffer = "empty"
  /\ MarkingIdle
  /\ \E i \in {1, 2} :
       service = [impl |-> i, ocspReqBuffer |-> "empty", writers |-> {}]
  /\ calls \in [CallIds -> {NewCall(id, raw) : id \in MailIds, raw \in RawMessages}]

(* pvutils utilConcatBuf: the bytes of content after those of buffer; bytes *)
(* that follow an OCSP request do not decode to a ContentInfo               *)
utilConcatBuf(buffer, content) ==
  IF buffer = "empty" THEN content
  ELSE [content EXCEPT !.contentInfoOk = FALSE, !.signedDataOk = FALSE,
                       !.hasCertificates = FALSE, !.certificates = <<>>]

(* the signature part appended to the buffer the service retains *)
signatureBufferOntoRetainedBuffer(this, content) ==
  utilConcatBuf(this.ocspReqBuffer, content)

(* lines 43 and 273: utilConcatBuf(new ArrayBuffer(0), signatureNode.content) *)
signatureBufferOf(this, content) ==
  utilConcatBuf("empty", content)

resolvedCall(c, r) ==
  [c EXCEPT !.result = r, !.promise = "resolved", !.resolveCalls = @ + 1, !.pc = "done"]

resolvedInExecutor(c, r, ran) ==
  [resolvedCall(c, r) EXCEPT !.stages = ran]

verifyStarted(c, r, ran) ==
  [c EXCEPT !.result = r, !.stages = ran, !.pc = "awaitVerify"]

(* the executor of the first definition, for call k *)
verifyMessageSignatureCall(k) ==
  /\ service.impl = 1
  /\ calls[k].pc = "start"
  /\ LET c == calls[k]
         r == [getResultPrototype EXCEPT !.mailId = c.mailId]
         signatureNode == getNode(c.raw.msg, 2)
         signatureBuffer == signatureBufferOf(service, c.raw.sig)
         asn1 == getAsn1TypeFromBuffer(signatureBuffer)
         cmsSignedSimpl == IF asn1.threw THEN Threw
                           ELSE getSignedDataFromAsn1(asn1.value)
         fetched == IF cmsSignedSimpl.threw THEN Threw
                    ELSE fetchSignerEmail(cmsSignedSimpl.value)
     IN IF ~isValidSmimeEmail(c.raw.msg, signatureNode)
        THEN calls' = [calls EXCEPT ![k] =
                         resolvedInExecutor(c, notSignedVerdict(r), <<"envelope">>)]
        ELSE IF fetched.threw
        THEN calls' = [calls EXCEPT ![k] =
                         resolvedInExecutor(c, invalidSignatureVerdict(r),
                                            <<"envelope", "decode">>)]
        ELSE \E t \in ServiceNows :
          LET d == [c EXCEPT !.now = t, !.signerEmail = fetched.value]
          IN calls' = [calls EXCEPT ![k] =
                         IF isAnyCertificateExpired(cmsSignedSimpl.value, t)
                         THEN resolvedInExecutor(d, expiredVerdict(r),
                                                 <<"envelope", "decode", "expiry">>)
                         ELSE verifyStarted(d, r,
                                <<"envelope", "decode", "expiry", "verify">>)]
  /\ UNCHANGED service
  /\ UNCHANGED <<callVars, markingVars>>

(* the executor of the second definition, for call k: line 316 assigns the *)
(* field ocspReqBuffer of the instance                                     *)
verifyMessageSignatureOcspCall(k) ==
  /\ service.impl = 2
  /\ calls[k].pc = "start"
  /\ LET c == calls[k]
         r == [getResultPrototype EXCEPT !.mailId = c.mailId]
         signatureNode == getNode(c.raw.msg, 2)
         signatureBuffer == signatureBufferOf(service, c.raw.sig)
         asn1 == getAsn1TypeFromBuffer(signatureBuffer)
         cmsSignedSimpl == IF asn1.threw THEN Threw
                           ELSE getSignedDataFromAsn1(asn1.value)
         ocsp == IF cmsSignedSimpl.threw THEN Threw
                 ELSE buildOcspRequest(cmsSignedSimpl.value, OcspRequestOf(k))
         fetched == IF ocsp.threw THEN Threw
                    ELSE firstAttributeOfFirstCertificate(cmsSignedSimpl.value)
     IN IF ~isValidSmimeEmail(c.raw.msg, signatureNode)
        THEN /\ calls' = [calls EXCEPT ![k] =
                            resolvedInExecutor(c, notSignedVerdict(r), <<"envelope">>)]
             /\ UNCHANGED service
        ELSE /\ service' = IF ocsp.threw THEN service
                           ELSE [service EXCEPT !.ocspReqBuffer = ocsp.value,
                                                !.writers = @ \cup {k}]
             /\ calls' = [calls EXCEPT ![k] =
                            IF fetched.threw
                            THEN resolvedInExecutor(c, invalidSignatureVerdict(r),
                                                    <<"envelope", "decode">>)
                            ELSE verifyStarted([c EXCEPT !.signerEmail = fetched.value],
                                               r, <<"envelope", "decode", "verify">>)]
  /\ UNCHANGED <<callVars, markingVars>>

(* the promise of cmsSignedSimpl.verify of call k settles *)
VerifySettlesCall(k) ==
  /\ calls[k].pc = "awaitVerify"
  /\ calls' = [calls EXCEPT ![k] =
       [@ EXCEPT !.verifyOutcome = calls[k].raw.verify,
                 !.pc = IF calls[k].raw.verify.kind = "fulfilled"
                        THEN "thenQueued" ELSE "catchQueued"]]
  /\ UNCHANGED service
  /\ UNCHANGED <<callVars, markingVars>>

(* the callback given to then, for call k *)
onVerifiedCall(k) ==
  /\ calls[k].pc = "thenQueued"
  /\ LET c == calls[k]
         r == [c.result EXCEPT !.signer = c.signerEmail]
         correct == isFromAddressCorrect(c.raw.from, c.signerEmail)
     IN calls' = [calls EXCEPT ![k] =
          IF isVerificationFailed(c.verifyOutcome.value)
          THEN resolvedCall(c, failedVerificationVerdict(r))
          ELSE IF correct.threw
          THEN [c EXCEPT !.result = r, !.stages = Append(@, "identity"),
                         !.pc = afterThrowInThen]
          ELSE [resolvedCall(c, IF ~correct.value THEN fromMismatchVerdict(r)
                                ELSE okVerdict(r))
                  EXCEPT !.stages = Append(@, "identity")]]
  /\ UNCHANGED service
  /\ UNCHANGED <<callVars, markingVars>>

(* the callback given to catch, for call k *)
onVerifyErrorCall(k) ==
  /\ calls[k].pc = "catchQueued"
  /\ calls' = [calls EXCEPT ![k] = resolvedCall(@, unknownErrorVerdict(@.result))]
  /\ UNCHANGED service
  /\ UNCHANGED <<callVars, markingVars>>

ServiceNext ==
  \/ \E k \in CallIds : verifyMessageSignatureCall(k)
  \/ \E k \in CallIds : verifyMessageSignatureOcspCall(k)
  \/ \E k \in CallIds : VerifySettlesCall(k)
  \/ \E k \in CallIds : onVerifiedCall(k)
  \/ \E k \in CallIds : onVerifyErrorCall(k)

ServiceSpec == ServiceInit /\ [][ServiceNext]_vars

(* The verification operation of every call is taken to settle, and the   *)
(* event loop runs every queued callback.  The executor needs no fairness: *)
(* it runs synchronously inside the call, so a call that was made has run  *)
(* it.                                                                     *)
FairServiceSpec ==
  /\ ServiceSpec
  /\ \A k \in CallIds :
       /\ WF_vars(VerifySettlesCall(k))
       /\ WF_vars(onVerifiedCall(k))
       /\ WF_vars(onVerifyErrorCall(k))

-----------------------------------------------------------------------------
(* MarkingService (src/unnamed/part_000): marks a message in the page with  *)
(* the result of its verification.                                          *)

(* what the terminal branches of verifyMessageSignature assign to success, *)
(* code and message: one code comes with several messages                  *)
ServiceVerdicts ==
  { notSignedVerdict(getResultPrototype),
    invalidSignatureVerdict(getResultPrototype),
    expiredVerdict(getResultPrototype),
    failedVerificationVerdict(getResultPrototype),
    fromMismatchVerdict(getResultPrototype),
    okVerdict(getResultPrototype),
    unknownErrorVerdict(getResultPrototype) }

(* the results handed to markResult: a result of any terminal branch, or    *)
(* the result prototype with its empty code                                 *)
MarkResults ==
  { [v EXCEPT !.mailId = id, !.signer = signer] :
       v \in ServiceVerdicts \cup {getResultPrototype},
       id \in MailIds,
       signer \in {"", "alice@x.org", "mallory@evil.org"} }

Hrefs ==
  { "https://inbox.google.com/",
    "https://inbox.google.com/u/0/?pli=1",
    "https://inbox.google.com/#inbox",
    "https://mail.google.com/mail/u/0/",
    "http://inbox.google.com/" }

MarkingInit ==
  /\ impl = 1
  /\ mailId = "m1"
  /\ msg = UnsignedEnvelope
  /\ sig = NotDecoded
  /\ now = NoTime
  /\ from = Undefined
  /\ verifyOutcome = NotSettled
  /\ pc = "none"
  /\ promise = "pending"
  /\ result = getResultPrototype
  /\ resolveCalls = 0
  /\ stages = <<>>
  /\ signerEmail = ""
  /\ ocspReqBuffer = "empty"
  /\ ServiceIdle
  /\ location \in Hrefs
  /\ iconFound \in BOOLEAN
  /\ markArg \in MarkResults
  /\ markPc = "start"
  /\ markCalls = <<>>
  /\ inserted = <<>>

(* String.prototype.toLowerCase on a result code *)
codeToLowerCase(code) ==
  CASE code = VERIFICATION_OK -> "verification_ok"
    [] code = FRAUD_WARNING -> "fraud_warning"
    [] code = CANNOT_VERIFY -> "cannot_verify"
    [] OTHER -> code

getIconPath(r) == "img/" \o codeToLowerCase(r.code) \o ".png"

(* chrome.runtime.getURL *)
getURL(path) == "chrome-extension://rocket-smime/" \o path

(* the signer address shown whatever the code *)
getInfoTextAlwaysSigner(r) ==
  CASE r.code = FRAUD_WARNING -> r.signer
    [] r.code = VERIFICATION_OK -> r.signer
    [] OTHER -> ""

getInfoText(r) ==
  CASE r.code = FRAUD_WARNING -> "Fraud warning!"
    [] r.code = VERIFICATION_OK -> r.signer
    [] OTHER -> ""

(* the characters of the class [a-z0-9/?=&] *)
InboxPathCharacters ==
  { "a", "b", "c", "d", "e", "f", "g", "h", "i", "j", "k", "l", "m", "n", "o", "p",
    "q", "r", "s", "t", "u", "v", "w", "x", "y", "z", "0", "1", "2", "3", "4", "5",
    "6", "7", "8", "9", "/", "?", "=", "&" }

InboxOrigin == "https://inbox.google.com/"

(* /^https:\/\/inbox\.google\.com\/([a-z0-9/?=&]+)?$/.exec(href) is not null *)
isInbox(href) ==
  /\ Len(href) >= Len(InboxOrigin)
  /\ SubSeq(href, 1, Len(InboxOrigin)) = InboxOrigin
  /\ \A i \in (Len(InboxOrigin) + 1)..Len(href) :
       SubSeq(href, i, i) \in InboxPathCharacters

createCustomIcon(iconUrl, message) ==
  [tag |-> "img", class |-> "", innerHTML |-> "", src |-> iconUrl, title |-> message]

InfoSpan(class, infoText) ==
  [tag |-> "span", class |-> class, innerHTML |-> infoText, src |-> "", title |-> ""]

(* the span and the icon inserted before the date element of the header *)
markForInbox(r, iconUrl, infoText) ==
  << InfoSpan("smime-sender-inbox", infoText), createCustomIcon(iconUrl, r.message) >>

(* the span inserted before the element of the marked class, if there is one *)
addInfoText(found, infoText) ==
  IF found THEN << InfoSpan("smime-sender-gmail", infoText) >> ELSE <<>>

(* the attachment icon added through domMessage, then addInfoText *)
markForGmail(r, iconUrl, infoText, found) ==
  << [tag |-> "attachmentIcon", class |-> "smime-mark-" \o r.mailId, innerHTML |-> "",
      src |-> iconUrl, title |-> r.message] >>
  \o addInfoText(found, infoText)

markResult ==
  /\ markPc = "start"
  /\ markPc' = "done"
  /\ IF markArg.code = CANNOT_VERIFY
     THEN UNCHANGED <<markCalls, inserted>>
     ELSE LET iconUrl == getURL(getIconPath(markArg))
              infoText == getInfoText(markArg)
          IN IF isInbox(location)
             THEN /\ markCalls' = Append(markCalls,
                       [method |-> "markForInbox", iconUrl |-> iconUrl,
                        infoText |-> infoText])
                  /\ inserted' = inserted \o markForInbox(markArg, iconUrl, infoText)
             ELSE /\ markCalls' = Append(markCalls,
                       [method |-> "markForGmail", iconUrl |-> iconUrl,
                        infoText |-> infoText])
                  /\ inserted' = inserted
                       \o markForGmail(markArg, iconUrl, infoText, iconFound)
  /\ UNCHANGED <<location, iconFound, markArg>>
  /\ UNCHANGED <<callVars, serviceVars>>

MarkingNext == markResult

MarkingSpec == MarkingInit /\ [][MarkingNext]_vars

-----------------------------------------------------------------------------
(* Vocabulary of the claims: properties of the input message as the        *)
(* specification words them, independent of what the code computes.        *)

(* letter case of the strings of the input sets *)
toLowerCase(x) ==
  CASE x = "SHA-256" -> "sha-256"
    [] x = "Alice@x.org" -> "alice@x.org"
    [] OTHER -> x

Range(f) == {f[i] : i \in DOMAIN f}

(* one of the envelope conditions of section 4.2 does not hold *)
EnvelopeFails(m) ==
  \/ ~m.contentType.present
  \/ ~m.contentType.hasParams
  \/ m.contentType.value # "multipart/signed"
  \/ m.contentType.protocol # "application/pkcs7-signature"
  \/ toLowerCase(m.contentType.micalg)
       \notin Range(rootNodeContentTypeMessageIntegrityCheckAlgorithms)
  \/ ~m.childNodes.truthy
  \/ m.childNodes.count < 2
  \/ m.childNodes.signatureContentType
       \notin {"application/x-pkcs7-signature", "application/pkcs7-signature"}

(* the signature part was read and is not valid ASN.1 / ContentInfo / SignedData *)
MalformedSignature(sg) ==
  /\ sg.read
  /\ \/ sg.berOffset = -1
     \/ ~sg.contentInfoOk
     \/ ~sg.signedDataOk

(* the signature part decoded to a SignedData with at least one certificate *)
DecodedWithCertificates(sg) ==
  /\ sg.read
  /\ sg.berOffset # -1
  /\ sg.contentInfoOk
  /\ sg.signedDataOk
  /\ sg.hasCertificates
  /\ Len(sg.certificates) >= 1

(* the values of the email-address attributes of the first certificate *)
FirstCertificateEmails(sg) ==
  {sg.certificates[1].subject[k].value :
     k \in {j \in DOMAIN sg.certificates[1].subject :
              sg.certificates[1].subject[j].type = "1.2.840.113549.1.9.1"}}

InsideWindow(certificate, t) ==
  /\ t >= certificate.notBefore - marginMilliseconds
  /\ t <= certificate.notAfter + marginMilliseconds

Resolved == pc = "done" /\ promise = "resolved"

VerifiedTrue == verifyOutcome = [kind |-> "fulfilled", value |-> "true"]

-----------------------------------------------------------------------------
(* C1: a message that passes the envelope check, decodes to a SignedData,   *)
(* has every certificate inside its validity window, whose verification of  *)
(* signer 0 fulfils with true and whose certificate email equals the first  *)
(* From address resolves with VERIFICATION_OK, success true and signer      *)
(* equal to the certificate's email attribute (first definition, the code   *)
(* the claim names).                                                        *)
C1_ValidMessageIsVerificationOk ==
  ( /\ pc = "done"
    /\ impl = 1
    /\ ~EnvelopeFails(msg)
    /\ DecodedWithCertificates(sig)
    /\ \A k \in DOMAIN sig.certificates : InsideWindow(sig.certificates[k], now)
    /\ VerifiedTrue
    /\ from # Undefined
    /\ FirstCertificateEmails(sig) = {from} )
  => /\ promise = "resolved"
     /\ result.code = VERIFICATION_OK
     /\ result.success = TRUE
     /\ result.signer = from

(* C2: VERIFICATION_OK (and success true) only when the verification        *)
(* operation fulfilled with the value true.                                 *)
C2_OkOnlyIfVerifiedTrue ==
  (Resolved /\ (result.code = VERIFICATION_OK \/ result.success))
  => VerifiedTrue

(* C3: a message that fails an envelope condition resolves with             *)
(* CANNOT_VERIFY, success false, empty signer and 'Message is not digitally *)
(* signed.', and no later stage is executed.                                *)
C3_EnvelopeFailureIsNotSigned ==
  (pc # "start" /\ EnvelopeFails(msg))
  => /\ Resolved
     /\ result.code = CANNOT_VERIFY
     /\ result.success = FALSE
     /\ result.signer = ""
     /\ result.message = "Message is not digitally signed."
     /\ stages = <<"envelope">>

(* C4: a well-formed envelope whose signature part fails ASN.1 decoding or  *)
(* interpretation as ContentInfo/SignedData resolves with FRAUD_WARNING,    *)
(* success false and 'Fraud warning: Invalid digital signature.', and the   *)
(* verification operation is never started.                                 *)
C4_MalformedSignatureIsFraud ==
  (pc # "start" /\ MalformedSignature(sig))
  => /\ Resolved
     /\ result.code = FRAUD_WARNING
     /\ result.success = FALSE
     /\ result.message = "Fraud warning: Invalid digital signature."
     /\ "verify" \notin Range(stages)
     /\ verifyOutcome = NotSettled

C4_Witness ==
  /\ Resolved
  /\ ~EnvelopeFails(msg)
  /\ sig.read
  /\ sig.berOffset # -1
  /\ sig.contentInfoOk
  /\ ~sig.signedDataOk
  /\ result.code = FRAUD_WARNING

(* C5: when the current time is later than notAfter + margin of the signing *)
(* certificate, the call resolves with FRAUD_WARNING and the verification   *)
(* operation is not invoked.                                                *)
C5_ExpiredIsFraudWithoutVerification ==
  ( /\ pc # "start"
    /\ DecodedWithCertificates(sig)
    /\ now # NoTime
    /\ now > sig.certificates[1].notAfter + marginMilliseconds )
  => /\ Resolved
     /\ result.code = FRAUD_WARNING
     /\ "verify" \notin Range(stages)
     /\ verifyOutcome = NotSettled

(* C6: verification fulfilled with true and the certificate email is not    *)
(* exactly the first From address: FRAUD_WARNING and success false.         *)
C6_FromMismatchIsFraud ==
  ( /\ pc = "done"
    /\ DecodedWithCertificates(sig)
    /\ VerifiedTrue
    /\ from # Undefined
    /\ FirstCertificateEmails(sig) # {}
    /\ from \notin FirstCertificateEmails(sig) )
  => /\ promise = "resolved"
     /\ result.code = FRAUD_WARNING
     /\ result.success = FALSE

(* C7: verification fulfilled with false gives FRAUD_WARNING ('Message      *)
(* failed verification with signature'), verification rejected gives        *)
(* CANNOT_VERIFY ('Unknown error'), never the other way round.              *)
C7_FalseIsFraudRejectionIsCannotVerify ==
  /\ (pc = "done" /\ verifyOutcome = [kind |-> "fulfilled", value |-> "false"])
     => /\ promise = "resolved"
        /\ result.code = FRAUD_WARNING
        /\ result.success = FALSE
        /\ result.message = "Fraud warning: Message failed verification with signature."
  /\ (pc = "done" /\ verifyOutcome.kind = "rejected")
     => /\ promise = "resolved"
        /\ result.code = CANNOT_VERIFY
        /\ result.success = FALSE
        /\ result.message = "Message cannot be verified: Unknown error."

C7_Witness ==
  /\ Resolved
  /\ verifyOutcome.kind = "rejected"
  /\ result.code = CANNOT_VERIFY
  /\ "verify" \in Range(stages)

(* C8: every resolved result has exactly one of the three codes, and        *)
(* success is true only with VERIFICATION_OK.                               *)
C8_CodeIsOneOfThree ==
  promise = "resolved"
  => /\ result.code \in {VERIFICATION_OK, CANNOT_VERIFY, FRAUD_WARNING}
     /\ result.success => result.code = VERIFICATION_OK

C8_Witness ==
  /\ Resolved
  /\ result.success
  /\ result.code = VERIFICATION_OK

(* C9: signer holds the extracted signer email when the code is             *)
(* VERIFICATION_OK or FRAUD_WARNING from a failure after decoding (expired  *)
(* or premature certificate, verification false, identity mismatch), and is *)
(* empty when the code is CANNOT_VERIFY from the envelope rejection.        *)
C9_SignerPopulatedAfterDecode ==
  Resolved
  => /\ ( /\ signerEmail \notin {"", Null}
          /\ \/ result.code = VERIFICATION_OK
             \/ (result.code = FRAUD_WARNING /\ Len(stages) >= 3) )
        => result.signer = signerEmail
     /\ (result.code = CANNOT_VERIFY /\ stages = <<"envelope">>)
        => result.signer = ""

(* C10: the signer email compared with From and reported in result.signer   *)
(* is the email-address attribute of the subject of the first certificate.  *)
C10_SignerIsFirstCertificateEmail ==
  ( /\ Resolved
    /\ DecodedWithCertificates(sig)
    /\ verifyOutcome.kind = "fulfilled"
    /\ Cardinality(FirstCertificateEmails(sig)) = 1 )
  => result.signer \in FirstCertificateEmails(sig)

-----------------------------------------------------------------------------
(* the call went past the envelope check: isValidSmimeEmail was truthy *)
EnvelopeAccepted == pc # "start" /\ stages # <<"envelope">>

(* C11: the envelope is accepted only if the root content type value is     *)
(* exactly 'multipart/signed' (no proper substring, not the empty string),  *)
(* the protocol equals 'application/pkcs7-signature', micalg is a member of *)
(* the fixed set, the root has child nodes and the signature node exists    *)
(* with one of the two signature content types.                             *)
C11_AcceptsOnlyExactEnvelope ==
  EnvelopeAccepted
  => /\ msg.contentType.present
     /\ msg.contentType.value = "multipart/signed"
     /\ msg.contentType.protocol = "application/pkcs7-signature"
     /\ msg.contentType.micalg
          \in Range(rootNodeContentTypeMessageIntegrityCheckAlgorithms)
     /\ msg.childNodes.truthy
     /\ msg.childNodes.count >= 2
     /\ msg.childNodes.signatureContentType
          \in {"application/x-pkcs7-signature", "application/pkcs7-signature"}

(* success, code and message of a result *)
Branch(r) == <<r.success, r.code, r.message>>

(* what the seven terminal branches assign *)
TerminalBranches ==
  { Branch(notSignedVerdict(getResultPrototype)),
    Branch(invalidSignatureVerdict(getResultPrototype)),
    Branch(expiredVerdict(getResultPrototype)),
    Branch(failedVerificationVerdict(getResultPrototype)),
    Branch(fromMismatchVerdict(getResultPrototype)),
    Branch(okVerdict(getResultPrototype)),
    Branch(unknownErrorVerdict(getResultPrototype)) }

CallResolved(k) == calls[k].pc = "done" /\ calls[k].promise = "resolved"

(* C12: every call that was made and whose verification operation settles  *)
(* eventually resolves its promise; resolve is called exactly once, the     *)
(* promise is never rejected, the resolved result carries what exactly one  *)
(* terminal branch assigns, and nothing changes the result after the        *)
(* resolution.                                                              *)
C12_ResolvesExactlyOnce ==
  /\ \A k \in CallIds : (calls[k].pc # "start") ~> CallResolved(k)
  /\ [](\A k \in DOMAIN calls :
          /\ calls[k].resolveCalls <= 1
          /\ calls[k].promise # "rejected"
          /\ (calls[k].promise = "resolved") <=> (calls[k].resolveCalls = 1)
          /\ (calls[k].promise = "resolved") <=> (calls[k].pc = "done")
          /\ calls[k].promise = "resolved"
               => Branch(calls[k].result) \in TerminalBranches)
  /\ [][\A k \in DOMAIN calls :
          calls[k].promise = "resolved" => calls'[k] = calls[k]]_vars

C12_Witness ==
  /\ DOMAIN calls = CallIds
  /\ CallResolved(1)
  /\ calls[1].resolveCalls = 1
  /\ "identity" \in Range(calls[1].stages)
  /\ calls[1].raw.from = Undefined
  /\ Branch(calls[1].result) = Branch(unknownErrorVerdict(getResultPrototype))
  /\ calls[2].pc = "awaitVerify"

(* C13: an error that is not anticipated and is raised after the envelope   *)
(* check (here: the exception of the identity check on a message without a  *)
(* From header) is propagated to the caller, and is not converted into a    *)
(* resolved result with one of the three verdict codes.                     *)
C13_UnanticipatedErrorPropagates ==
  (pc = "done" /\ "identity" \in Range(stages) /\ from = Undefined)
  => ~(/\ promise = "resolved"
       /\ result.code \in {VERIFICATION_OK, CANNOT_VERIFY, FRAUD_WARNING})

(* C14: concurrent calls on one service instance are independent: under    *)
(* every interleaving each call resolves with its own mailId, and no field  *)
(* of the instance written by one call is read or written by another call.  *)
C14_ConcurrentCallsIndependent ==
  /\ \A k \in DOMAIN calls :
       calls[k].promise = "resolved" => calls[k].result.mailId = calls[k].mailId
  /\ Cardinality(service.writers) <= 1

(* the two calls were made with identical raw bytes and mailId, and both    *)
(* have resolved                                                            *)
CalledTwiceWithSameInput ==
  /\ DOMAIN calls = CallIds
  /\ calls[1].mailId = calls[2].mailId
  /\ calls[1].raw = calls[2].raw
  /\ \A k \in CallIds : calls[k].pc = "done" /\ calls[k].promise = "resolved"

(* C15 as stated: two calls with identical raw bytes and mailId yield        *)
(* results equal in mailId, success, code, message and signer.              *)
C15_SameInputSameResult ==
  CalledTwiceWithSameInput => calls[1].result = calls[2].result

(* C15 amended: ... provided the two calls read the same wall-clock time;   *)
(* no state retained from the first call affects the second.                *)
C15_SameInputAndClockSameResult ==
  (CalledTwiceWithSameInput /\ calls[1].now = calls[2].now)
  => calls[1].result = calls[2].result

C15_Witness ==
  /\ CalledTwiceWithSameInput
  /\ calls[1].now = calls[2].now
  /\ calls[1].now # NoTime
  /\ calls[1].result = calls[2].result
  /\ calls[2].result.code = VERIFICATION_OK

(* the fixed order of the stages *)
StageOrder == <<"envelope", "decode", "expiry", "verify", "identity">>

IsPrefix(s, t) == Len(s) <= Len(t) /\ s = SubSeq(t, 1, Len(s))

(* C16 (first definition, the code the claim names): the stages run in the  *)
(* order envelope check, decode, certificate temporal check, verification,  *)
(* identity check, each only after every earlier one and none twice; the    *)
(* call is suspended only once the verification was started; no stage runs  *)
(* after the promise resolved.                                              *)
C16_StagesInFixedOrder ==
  /\ [](impl = 1
        => /\ IsPrefix(stages, StageOrder)
           /\ pc = "start" <=> stages = <<>>
           /\ pc \in {"awaitVerify", "thenQueued", "catchQueued"}
                => "verify" \in Range(stages)
           /\ Len(stages) < 4 => (pc = "start" \/ Resolved))
  /\ [][impl = 1 /\ promise = "resolved" => stages' = stages]_vars

C16_Witness ==
  /\ impl = 1
  /\ Resolved
  /\ stages = StageOrder
  /\ result.code = VERIFICATION_OK

(* the first definition stopped at the certificate temporal check *)
StoppedAsExpired ==
  /\ stages = <<"envelope", "decode", "expiry">>
  /\ Resolved
  /\ Branch(result) = Branch(expiredVerdict(getResultPrototype))

(* C17: the temporal check rejects exactly when at least one certificate    *)
(* (not only the first) has the current time strictly before notBefore -    *)
(* margin or strictly after notAfter + margin; a time equal to a bound is   *)
(* inside the window.                                                       *)
C17_ExpiredIffSomeCertificateOutside ==
  (impl = 1 /\ now # NoTime)
  => (StoppedAsExpired
      <=> \E k \in DOMAIN sig.certificates :
            \/ now < sig.certificates[k].notBefore - marginMilliseconds
            \/ now > sig.certificates[k].notAfter + marginMilliseconds)

C17_Witness ==
  /\ impl = 1
  /\ StoppedAsExpired
  /\ Len(sig.certificates) = 2
  /\ InsideWindow(sig.certificates[1], now)
  /\ now > sig.certificates[2].notAfter + marginMilliseconds

(* C18: the micalg check is a case-insensitive exact match: a message that  *)
(* satisfies every envelope condition, its micalg possibly in another       *)
(* letter case (e.g. 'SHA-256'), is accepted and is not classified          *)
(* 'Message is not digitally signed.'.                                      *)
C18_MicalgCaseInsensitive ==
  (pc # "start" /\ ~EnvelopeFails(msg))
  => /\ EnvelopeAccepted
     /\ result.message # "Message is not digitally signed."

(* C19 (second definition): the construction of the OCSP request does not   *)
(* influence the verdict.  A run on a message whose signature part decodes  *)
(* and whose first certificate has a subject attribute goes on to the       *)
(* verification when the construction succeeds; so does the run on the same *)
(* message in which the construction throws (issuer with fewer than four    *)
(* attributes), and it does not resolve with the invalid-signature verdict. *)
C19_OcspDoesNotInfluenceVerdict ==
  ( /\ impl = 2
    /\ pc # "start"
    /\ DecodedWithCertificates(sig)
    /\ Len(sig.certificates[1].subject) >= 1
    /\ sig.issuerAttrs < 4 )
  => /\ "verify" \in Range(stages)
     /\ Branch(result) # Branch(invalidSignatureVerdict(getResultPrototype))

(* C20: markResult performs no marking for CANNOT_VERIFY; for FRAUD_WARNING *)
(* and VERIFICATION_OK it invokes exactly one of markForInbox and           *)
(* markForGmail, exactly once, with the info text 'Fraud warning!' for      *)
(* FRAUD_WARNING (never the signer address) and the result's signer for     *)
(* VERIFICATION_OK.                                                         *)
C20_MarkingFollowsCode ==
  markPc = "done"
  => /\ markArg.code = CANNOT_VERIFY => (markCalls = <<>> /\ inserted = <<>>)
     /\ markArg.code \in {FRAUD_WARNING, VERIFICATION_OK}
        => /\ Len(markCalls) = 1
           /\ markCalls[1].method \in {"markForInbox", "markForGmail"}
           /\ markCalls[1].method = "markForInbox" <=> isInbox(location)
           /\ markCalls[1].infoText =
                (IF markArg.code = FRAUD_WARNING THEN "Fraud warning!"
                 ELSE markArg.signer)
           /\ \A i \in DOMAIN inserted :
                inserted[i].tag = "span"
                => inserted[i].innerHTML = markCalls[1].infoText

C20_Witness ==
  /\ markPc = "done"
  /\ markArg.code = FRAUD_WARNING
  /\ markArg.signer = "mallory@evil.org"
  /\ markArg.message = fromMismatchVerdict(getResultPrototype).message
  /\ Len(inserted) = 2
  /\ inserted[1].title = markArg.message
  /\ Len(markCalls) = 1
  /\ markCalls[1].method = "markForGmail"
  /\ markCalls[1].infoText = "Fraud warning!"

====
